---- MODULE Spec2Model ----
(***************************************************************************)
(* ZenUI (src/index.js): the theme store, the CSS-in-JS style engine, the  *)
(* element builder and the Modal overlay lifecycle, as a state machine.    *)
(*                                                                         *)
(* JavaScript strings that reach btoa are kept as sequences of atoms (each *)
(* atom a literal of the source or a theme value); Bytes flattens such a   *)
(* sequence to the character codes btoa encodes.  Theme categories are     *)
(* heap objects, because the source copies the theme by reference.         *)
(***************************************************************************)
EXTENDS Naturals, Integers, Sequences, FiniteSets, TLC

\* ---- bounds of the model ----
MaxRules == 3        \* css stops minting when uniqueId reaches this
MaxModals == 2       \* number of Modal instances opened
MaxChildren == 3     \* longest children array given to createElement
MaxClose == 2       \* number of close requests that start exit animations

VARIABLES
  heap,        \* category -> object -> token mapping (the category objects)
  activeTheme, \* category -> object                (let activeTheme)
  held,        \* the client's reference to a getTheme() result, or NoTheme
  styleCache,  \* hash -> class name                (styleCache Map)
  styleSheet,  \* sequence of inserted rules        (styleSheet.cssRules)
  uniqueId,    \* let uniqueId
  returned,    \* history: the (text, class) pairs css returned since the last theme change
  stale,       \* history: the class names css returned before the last theme change
  epochStart,  \* history: number of rules in the sheet at the last theme change
  element,     \* the node returned by the last createElement call, or NoNode
  modals,      \* the Modal instances opened so far
  body,        \* children of document.body (overlay ids), in order
  modalResult  \* what the latest Modal(props) call returned: an instance id, or Null

themeVars == <<heap, activeTheme, held>>
styleVars == <<styleCache, styleSheet, uniqueId, returned, stale, epochStart>>
elemVars  == <<element>>
modalVars == <<modals, body, modalResult>>
vars == <<heap, activeTheme, held, styleCache, styleSheet, uniqueId,
          returned, stale, epochStart, element, modals, body, modalResult>>

NoTheme == [none |-> TRUE]
NoNode == [tag |-> "none"]
Null == 0

\* ---- theme store --------------------------------------------------------

Categories == {"colors", "spacing", "typography", "borderRadius", "shadows", "transitions"}

\* The literal token set of defaultTheme.
DefaultTokens ==
  [colors |-> [primary |-> "#4a6cf7", secondary |-> "#6c757d", success |-> "#28a745",
               danger |-> "#dc3545", warning |-> "#ffc107", info |-> "#17a2b8",
               light |-> "#f8f9fa", dark |-> "#343a40", background |-> "#ffffff",
               text |-> "#212529", border |-> "#dee2e6"],
   spacing |-> [xs |-> "0.25rem", sm |-> "0.5rem", md |-> "1rem", lg |-> "1.5rem", xl |-> "2rem"],
   typography |-> [fontFamily |-> "-apple-system, BlinkMacSystemFont, \"Segoe UI\", Roboto, Helvetica, Arial, sans-serif",
                   fontSize |-> "16px", lineHeight |-> "1.5"],
   borderRadius |-> [sm |-> "0.25rem", md |-> "0.375rem", lg |-> "0.5rem", pill |-> "50rem"],
   shadows |-> [sm |-> "0 1px 2px rgba(0, 0, 0, 0.05)", md |-> "0 4px 6px rgba(0, 0, 0, 0.1)",
                lg |-> "0 10px 15px rgba(0, 0, 0, 0.1)"],
   transitions |-> [default |-> "all 0.2s ease-in-out", fast |-> "all 0.1s ease-in-out",
                    slow |-> "all 0.3s ease-in-out"]]

\* The category objects are told apart by a name per category: DefaultObject
\* is the one defaultTheme refers to, ActiveObject the one activeTheme refers
\* to when that is another, HeldObject the one only the client's copy refers
\* to, NewObject one an operation is creating.
DefaultObject == "default"
ActiveObject == "active"
HeldObject == "held"
NewObject == "new"

\* const defaultTheme: the top-level object, holding a reference per category.
defaultTheme == [c \in Categories |-> DefaultObject]

\* The name of the object a reference has after an operation that leaves
\* activeTheme as `active`: objects no reference reaches are dropped.
NameOf(active, c, o) ==
  IF o = DefaultObject THEN DefaultObject
  ELSE IF o = active[c] THEN ActiveObject
  ELSE HeldObject

\* The heap, the active theme and the client's copy after an operation, with
\* the objects renamed by NameOf.
StoreTheme(hp, active, h) ==
  LET refs(c) == {DefaultObject, active[c]} \cup (IF h = NoTheme THEN {} ELSE {h[c]})
  IN  /\ heap' = [c \in Categories |->
                    [n \in {NameOf(active, c, o) : o \in refs(c)} |->
                       hp[c][CHOOSE o \in refs(c) : NameOf(active, c, o) = n]]]
      /\ activeTheme' = [c \in Categories |-> NameOf(active, c, active[c])]
      /\ held' = IF h = NoTheme THEN NoTheme
                 ELSE [c \in Categories |-> NameOf(active, c, h[c])]

\* The heap with a new object for category c.
WithNew(hp, c, tokens) == [hp EXCEPT ![c] = (NewObject :> tokens) @@ @]

\* Object spread { ...a, ...b }.
Spread(a, b) == [k \in (DOMAIN a) \cup (DOMAIN b) |-> IF k \in DOMAIN b THEN b[k] ELSE a[k]]

\* A theme as the values a reader sees through the references.
Deref(hp, theme) == [c \in DOMAIN theme |-> hp[c][theme[c]]]


\* ---- style engine -------------------------------------------------------

\* Character codes of the string literals and theme values the model uses.
Ascii ==
     "#4a6cf7" :> <<35, 52, 97, 54, 99, 102, 55>> @@
     "#6c757d" :> <<35, 54, 99, 55, 53, 55, 100>> @@
     "#28a745" :> <<35, 50, 56, 97, 55, 52, 53>> @@
     "#dc3545" :> <<35, 100, 99, 51, 53, 52, 53>> @@
     "#ffc107" :> <<35, 102, 102, 99, 49, 48, 55>> @@
     "#17a2b8" :> <<35, 49, 55, 97, 50, 98, 56>> @@
     "#f8f9fa" :> <<35, 102, 56, 102, 57, 102, 97>> @@
     "#343a40" :> <<35, 51, 52, 51, 97, 52, 48>> @@
     "#ffffff" :> <<35, 102, 102, 102, 102, 102, 102>> @@
     "#212529" :> <<35, 50, 49, 50, 53, 50, 57>> @@
     "#dee2e6" :> <<35, 100, 101, 101, 50, 101, 54>> @@
     "0.25rem" :> <<48, 46, 50, 53, 114, 101, 109>> @@
     "0.5rem" :> <<48, 46, 53, 114, 101, 109>> @@
     "1rem" :> <<49, 114, 101, 109>> @@
     "1.5rem" :> <<49, 46, 53, 114, 101, 109>> @@
     "2rem" :> <<50, 114, 101, 109>> @@
     "-apple-system, BlinkMacSystemFont, \"Segoe UI\", Roboto, Helvetica, Arial, sans-serif" :> <<45, 97, 112, 112, 108, 101, 45, 115, 121, 115, 116, 101, 109, 44, 32, 66, 108, 105, 110, 107, 77, 97, 99, 83, 121, 115, 116, 101, 109, 70, 111, 110, 116, 44, 32, 34, 83, 101, 103, 111, 101, 32, 85, 73, 34, 44, 32, 82, 111, 98, 111, 116, 111, 44, 32, 72, 101, 108, 118, 101, 116, 105, 99, 97, 44, 32, 65, 114, 105, 97, 108, 44, 32, 115, 97, 110, 115, 45, 115, 101, 114, 105, 102>> @@
     "16px" :> <<49, 54, 112, 120>> @@
     "1.5" :> <<49, 46, 53>> @@
     "0.375rem" :> <<48, 46, 51, 55, 53, 114, 101, 109>> @@
     "50rem" :> <<53, 48, 114, 101, 109>> @@
     "0 1px 2px rgba(0, 0, 0, 0.05)" :> <<48, 32, 49, 112, 120, 32, 50, 112, 120, 32, 114, 103, 98, 97, 40, 48, 44, 32, 48, 44, 32, 48, 44, 32, 48, 46, 48, 53, 41>> @@
     "0 4px 6px rgba(0, 0, 0, 0.1)" :> <<48, 32, 52, 112, 120, 32, 54, 112, 120, 32, 114, 103, 98, 97, 40, 48, 44, 32, 48, 44, 32, 48, 44, 32, 48, 46, 49, 41>> @@
     "0 10px 15px rgba(0, 0, 0, 0.1)" :> <<48, 32, 49, 48, 112, 120, 32, 49, 53, 112, 120, 32, 114, 103, 98, 97, 40, 48, 44, 32, 48, 44, 32, 48, 44, 32, 48, 46, 49, 41>> @@
     "all 0.2s ease-in-out" :> <<97, 108, 108, 32, 48, 46, 50, 115, 32, 101, 97, 115, 101, 45, 105, 110, 45, 111, 117, 116>> @@
     "all 0.1s ease-in-out" :> <<97, 108, 108, 32, 48, 46, 49, 115, 32, 101, 97, 115, 101, 45, 105, 110, 45, 111, 117, 116>> @@
     "all 0.3s ease-in-out" :> <<97, 108, 108, 32, 48, 46, 51, 115, 32, 101, 97, 115, 101, 45, 105, 110, 45, 111, 117, 116>> @@
     "#000000" :> <<35, 48, 48, 48, 48, 48, 48>> @@
     ": " :> <<58, 32>> @@
     ";" :> <<59>> @@
     " " :> <<32>> @@
     " { " :> <<32, 123, 32>> @@
     " }" :> <<32, 125>> @@
     "color" :> <<99, 111, 108, 111, 114>> @@
     "red" :> <<114, 101, 100>> @@
     "blue" :> <<98, 108, 117, 101>> @@
     "margin" :> <<109, 97, 114, 103, 105, 110>> @@
     "&:hover" :> <<38, 58, 104, 111, 118, 101, 114>> @@
     "position" :> <<112, 111, 115, 105, 116, 105, 111, 110>> @@
     "fixed" :> <<102, 105, 120, 101, 100>> @@
     "top" :> <<116, 111, 112>> @@
     "left" :> <<108, 101, 102, 116>> @@
     "right" :> <<114, 105, 103, 104, 116>> @@
     "bottom" :> <<98, 111, 116, 116, 111, 109>> @@
     "0" :> <<48>> @@
     "backgroundColor" :> <<98, 97, 99, 107, 103, 114, 111, 117, 110, 100, 67, 111, 108, 111, 114>> @@
     "rgba(0, 0, 0, 0.5)" :> <<114, 103, 98, 97, 40, 48, 44, 32, 48, 44, 32, 48, 44, 32, 48, 46, 53, 41>> @@
     "display" :> <<100, 105, 115, 112, 108, 97, 121>> @@
     "flex" :> <<102, 108, 101, 120>> @@
     "alignItems" :> <<97, 108, 105, 103, 110, 73, 116, 101, 109, 115>> @@
     "center" :> <<99, 101, 110, 116, 101, 114>> @@
     "justifyContent" :> <<106, 117, 115, 116, 105, 102, 121, 67, 111, 110, 116, 101, 110, 116>> @@
     "zIndex" :> <<122, 73, 110, 100, 101, 120>> @@
     "1000" :> <<49, 48, 48, 48>> @@
     "borderRadius" :> <<98, 111, 114, 100, 101, 114, 82, 97, 100, 105, 117, 115>> @@
     "boxShadow" :> <<98, 111, 120, 83, 104, 97, 100, 111, 119>> @@
     "flexDirection" :> <<102, 108, 101, 120, 68, 105, 114, 101, 99, 116, 105, 111, 110>> @@
     "column" :> <<99, 111, 108, 117, 109, 110>> @@
     "maxHeight" :> <<109, 97, 120, 72, 101, 105, 103, 104, 116>> @@
     "90vh" :> <<57, 48, 118, 104>> @@
     "overflow" :> <<111, 118, 101, 114, 102, 108, 111, 119>> @@
     "hidden" :> <<104, 105, 100, 100, 101, 110>> @@
     "relative" :> <<114, 101, 108, 97, 116, 105, 118, 101>> @@
     "1001" :> <<49, 48, 48, 49>> @@
     "width" :> <<119, 105, 100, 116, 104>> @@
     "300px" :> <<51, 48, 48, 112, 120>> @@
     "500px" :> <<53, 48, 48, 112, 120>> @@
     "800px" :> <<56, 48, 48, 112, 120>> @@
     "95vw" :> <<57, 53, 118, 119>> @@
     "height" :> <<104, 101, 105, 103, 104, 116>> @@
     "95vh" :> <<57, 53, 118, 104>> @@
     "space-between" :> <<115, 112, 97, 99, 101, 45, 98, 101, 116, 119, 101, 101, 110>> @@
     "padding" :> <<112, 97, 100, 100, 105, 110, 103>> @@
     "borderBottom" :> <<98, 111, 114, 100, 101, 114, 66, 111, 116, 116, 111, 109>> @@
     "1px solid " :> <<49, 112, 120, 32, 115, 111, 108, 105, 100, 32>> @@
     "fontWeight" :> <<102, 111, 110, 116, 87, 101, 105, 103, 104, 116>> @@
     "bold" :> <<98, 111, 108, 100>> @@
     "fontSize" :> <<102, 111, 110, 116, 83, 105, 122, 101>> @@
     "1.25rem" :> <<49, 46, 50, 53, 114, 101, 109>> @@
     "background" :> <<98, 97, 99, 107, 103, 114, 111, 117, 110, 100>> @@
     "none" :> <<110, 111, 110, 101>> @@
     "border" :> <<98, 111, 114, 100, 101, 114>> @@
     "cursor" :> <<99, 117, 114, 115, 111, 114>> @@
     "pointer" :> <<112, 111, 105, 110, 116, 101, 114>> @@
     "lineHeight" :> <<108, 105, 110, 101, 72, 101, 105, 103, 104, 116>> @@
     "1" :> <<49>> @@
     "1 1 auto" :> <<49, 32, 49, 32, 97, 117, 116, 111>> @@
     "overflowY" :> <<111, 118, 101, 114, 102, 108, 111, 119, 89>> @@
     "auto" :> <<97, 117, 116, 111>> @@
     "borderTop" :> <<98, 111, 114, 100, 101, 114, 84, 111, 112>> @@
     "flex-end" :> <<102, 108, 101, 120, 45, 101, 110, 100>> @@
     "gap" :> <<103, 97, 112>> @@
     "inline-flex" :> <<105, 110, 108, 105, 110, 101, 45, 102, 108, 101, 120>> @@
     "fontFamily" :> <<102, 111, 110, 116, 70, 97, 109, 105, 108, 121>> @@
     "500" :> <<53, 48, 48>> @@
     "transition" :> <<116, 114, 97, 110, 115, 105, 116, 105, 111, 110>> @@
     "0.875rem" :> <<48, 46, 56, 55, 53, 114, 101, 109>> @@
     "1.125rem" :> <<49, 46, 49, 50, 53, 114, 101, 109>> @@
     "#e2e6ea" :> <<35, 101, 50, 101, 54, 101, 97>> @@
     "white" :> <<119, 104, 105, 116, 101>> @@
     "#3a59c7" :> <<35, 51, 97, 53, 57, 99, 55>> @@
     "#5a6268" :> <<35, 53, 97, 54, 50, 54, 56>> @@
     "#218838" :> <<35, 50, 49, 56, 56, 51, 56>> @@
     "#c82333" :> <<35, 99, 56, 50, 51, 51, 51>> @@
     "transparent" :> <<116, 114, 97, 110, 115, 112, 97, 114, 101, 110, 116>> @@
     "undefined" :> <<117, 110, 100, 101, 102, 105, 110, 101, 100>> @@
     "opacity" :> <<111, 112, 97, 99, 105, 116, 121>> @@
     "0.65" :> <<48, 46, 54, 53>> @@
     "not-allowed" :> <<110, 111, 116, 45, 97, 108, 108, 111, 119, 101, 100>> @@
     "100%" :> <<49, 48, 48, 37>> @@
     "" :> <<>> @@
     "Test" :> <<84, 101, 115, 116>> @@
     "a" :> <<97>> @@
     "+" :> <<43>> @@
     "x" :> <<120>> @@
     "X" :> <<88>>


RECURSIVE Bytes(_)
\* The characters of a string given as a sequence of atoms.
Bytes(atoms) == IF atoms = <<>> THEN <<>> ELSE Ascii[Head(atoms)] \o Bytes(Tail(atoms))

SameText(a, b) == Bytes(a) = Bytes(b)

RECURSIVE Join(_, _)
\* Array.prototype.join: the parts separated by sep.
Join(parts, sep) ==
  IF parts = <<>> THEN <<>>
  ELSE IF Len(parts) = 1 THEN parts[1]
  ELSE parts[1] \o <<sep>> \o Join(Tail(parts), sep)

\* `${nestedKey}: ${nestedValue};`
Declaration(e) == <<e.key, ": ">> \o e.value \o <<";">>

\* One entry of Object.entries(processedStyles), serialised.
EntryText(e) ==
  IF "nested" \in DOMAIN e
  THEN <<e.key, " { ">> \o Join([i \in 1..Len(e.nested) |-> Declaration(e.nested[i])], " ") \o <<" }">>
  ELSE Declaration(e)

\* cssString: the entries joined by a single space.
CssString(entries) == Join([i \in 1..Len(entries) |-> EntryText(entries[i])], " ")

B64 == <<"A","B","C","D","E","F","G","H","I","J","K","L","M","N","O","P","Q","R","S","T","U","V","W","X","Y","Z",
         "a","b","c","d","e","f","g","h","i","j","k","l","m","n","o","p","q","r","s","t","u","v","w","x","y","z",
         "0","1","2","3","4","5","6","7","8","9","+","/">>

\* The j-th character of btoa(b): each group of three characters gives four
\* base64 digits, and a last group of one or two characters is padded with "=".
BtoaChar(b, j) ==
  LET g == 3 * ((j - 1) \div 4)
      at(k) == IF g + k <= Len(b) THEN b[g + k] ELSE 0
      p == (j - 1) % 4
  IN  CASE p = 0 -> B64[(at(1) \div 4) + 1]
        [] p = 1 -> B64[((at(1) % 4) * 16 + (at(2) \div 16)) + 1]
        [] p = 2 -> IF g + 2 > Len(b) THEN "=" ELSE B64[((at(2) % 16) * 4 + (at(3) \div 64)) + 1]
        [] p = 3 -> IF g + 3 > Len(b) THEN "=" ELSE B64[(at(3) % 64) + 1]

\* btoa: base64 of the characters.
Btoa(b) == [j \in 1..(4 * ((Len(b) + 2) \div 3)) |-> BtoaChar(b, j)]

\* .replace(/[+/=]/g, '')
StripSymbols(s) == SelectSeq(s, LAMBDA ch : ch \notin {"+", "/", "="})

\* .substring(0, 8)
Prefix8(s) == SubSeq(s, 1, IF Len(s) < 8 THEN Len(s) ELSE 8)

RECURSIVE HashOfPrefix(_, _)
\* btoa(b).replace(/[+/=]/g, '').substring(0, 8), computed from the first m
\* characters of b (m a multiple of 3): btoa encodes each group of three
\* characters on its own, so the 8 digits are those of the shortest such
\* prefix of b that yields 8 digits, or of all of b.
HashOfPrefix(b, m) ==
  LET digits == StripSymbols(Btoa(SubSeq(b, 1, IF m < Len(b) THEN m ELSE Len(b))))
  IN  IF Len(digits) >= 8 \/ m >= Len(b) THEN Prefix8(digits) ELSE HashOfPrefix(b, m + 3)

\* const hash = btoa(cssString).replace(/[+/=]/g, '').substring(0, 8)
Hash(text) == HashOfPrefix(Bytes(text), 6)

\* createUniqueId that never advances: every class gets the first name.
createUniqueIdOnce(prefix, uid) == prefix \o "-" \o ToString(0)

\* createUniqueId(prefix): `${prefix}-${uniqueId++}` (the increment is the caller's uid + 1)
createUniqueId(prefix, uid) == prefix \o "-" \o ToString(uid)

\* The style descriptions given to css: static mappings and functions of the theme.
Descriptions == {"red", "redFn", "blue", "margin"}

\* The descriptions that read the theme.
ThemeDescriptions == {"margin", "hover"}

\* processedStyles: the mapping a description yields under the theme values tv.
Resolve(d, tv) ==
  CASE d = "red"    -> <<[key |-> "color", value |-> <<"red">>]>>
    [] d = "redFn"  -> <<[key |-> "color", value |-> <<"red">>]>>
    [] d = "blue"   -> <<[key |-> "color", value |-> <<"blue">>]>>
    [] d = "margin" -> <<[key |-> "margin", value |-> <<tv.spacing.md>>]>>
    [] d = "hover"  -> <<[key |-> "&:hover", nested |-> <<[key |-> "color", value |-> <<tv.colors.primary>>]>>]>>

\* css that inserts its rule at the head of the stylesheet, insertRule(rule, 0).
CssInsertFirst(st, entries) ==
  LET cssString == CssString(entries)
      hash == Hash(cssString)
  IN  IF hash \notin DOMAIN st.cache
      THEN LET className == createUniqueId("zen-style", st.uid)
           IN  [cache |-> (hash :> className) @@ st.cache,
                sheet |-> <<[selector |-> className, body |-> cssString]>> \o st.sheet,
                uid |-> st.uid + 1,
                cls |-> className,
                text |-> cssString]
      ELSE [cache |-> st.cache, sheet |-> st.sheet, uid |-> st.uid,
            cls |-> st.cache[hash], text |-> cssString]

\* css without the cache lookup: every call mints a class and inserts a rule.
CssAlwaysMint(st, entries) ==
  LET cssString == CssString(entries)
      className == createUniqueId("zen-style", st.uid)
  IN  [cache |-> (Hash(cssString) :> className) @@ st.cache,
       sheet |-> Append(st.sheet, [selector |-> className, body |-> cssString]),
       uid |-> st.uid + 1,
       cls |-> className,
       text |-> cssString]

\* css(styles) on the style state st = [cache, sheet, uid]: the new style state,
\* the class name returned and the resolved text.
Css(st, entries) ==
  LET cssString == CssString(entries)
      hash == Hash(cssString)
  IN  IF hash \notin DOMAIN st.cache
      THEN LET className == createUniqueId("zen-style", st.uid)
           IN  [cache |-> (hash :> className) @@ st.cache,
                sheet |-> Append(st.sheet, [selector |-> className, body |-> cssString]),
                uid |-> st.uid + 1,
                cls |-> className,
                text |-> cssString]
      ELSE [cache |-> st.cache, sheet |-> st.sheet, uid |-> st.uid,
            cls |-> st.cache[hash], text |-> cssString]

StyleState == [cache |-> styleCache, sheet |-> styleSheet, uid |-> uniqueId]

\* Record what a css call returned (history).
Logged(log, r) == log \cup {[text |-> r.text, cls |-> r.cls]}

SetStyle(st) ==
  /\ styleCache' = st.cache
  /\ styleSheet' = st.sheet
  /\ uniqueId' = st.uid

\* A direct call css(d).
CssCall(d) ==
  LET r == Css(StyleState, Resolve(d, Deref(heap, activeTheme)))
  IN  /\ r.uid <= MaxRules
      /\ SetStyle(r)
      /\ returned' = Logged(returned, r)
      /\ UNCHANGED <<stale, epochStart, themeVars, elemVars, modalVars>>

EmptyMap == [k \in {} |-> {}]

\* ---- theme operations ---------------------------------------------------

\* The partial themes given to setTheme: categories of the theme schema, each
\* with some of its tokens.
Partials ==
  { EmptyMap,
    [spacing |-> [md |-> "2rem"]],
    [colors |-> [primary |-> "#000000"]] }

\* The partials that change what the descriptions of Descriptions resolve to.
StylePartials == { EmptyMap, [spacing |-> [md |-> "2rem"]] }

\* The Modal props explored: isOpen, whether title, footer and an onClose
\* callback are given, and size.
ModalProps ==
  { [isOpen |-> TRUE, title |-> TRUE, footer |-> TRUE, size |-> "medium", onClose |-> TRUE],
    [isOpen |-> TRUE, title |-> FALSE, footer |-> FALSE, size |-> "fullscreen", onClose |-> FALSE],
    [isOpen |-> FALSE, title |-> TRUE, footer |-> FALSE, size |-> "small", onClose |-> TRUE] }

\* newTheme.<category> || {}
CategoryOf(newTheme, c) == IF c \in DOMAIN newTheme THEN newTheme[c] ELSE EmptyMap

\* ClearCache without the clear: the cache survives the theme change.
ClearCacheKeep ==
  /\ returned' = {}
  /\ stale' = stale \cup {e.cls : e \in returned}
  /\ epochStart' = Len(styleSheet)
  /\ UNCHANGED <<styleCache, styleSheet, uniqueId>>

\* ClearCache that also restarts the class counter.
ClearCacheResetIds ==
  /\ styleCache' = EmptyMap
  /\ uniqueId' = 0
  /\ returned' = {}
  /\ stale' = stale \cup {e.cls : e \in returned}
  /\ epochStart' = Len(styleSheet)
  /\ UNCHANGED <<styleSheet>>

\* ClearCache that also empties the stylesheet.
ClearCacheDropRules ==
  /\ styleCache' = EmptyMap
  /\ styleSheet' = <<>>
  /\ returned' = {}
  /\ stale' = stale \cup {e.cls : e \in returned}
  /\ epochStart' = 0
  /\ UNCHANGED <<uniqueId>>

\* styleCache.clear(), with the history of css results marked as older than the change.
ClearCache ==
  /\ styleCache' = EmptyMap
  /\ returned' = {}
  /\ stale' = stale \cup {e.cls : e \in returned}
  /\ epochStart' = Len(styleSheet)
  /\ UNCHANGED <<styleSheet, uniqueId>>

\* setTheme as a top-level merge only, { ...activeTheme, ...newTheme }: a
\* category of the partial replaces the active category.
SetThemeShallow(newTheme) ==
  LET merged == [c \in Categories |->
                   IF c \in DOMAIN newTheme THEN newTheme[c] ELSE heap[c][activeTheme[c]]]
      grown == [c \in Categories |-> (NewObject :> merged[c]) @@ heap[c]]
  IN  /\ StoreTheme(grown, [c \in Categories |-> NewObject], held)
      /\ ClearCache
      /\ UNCHANGED <<elemVars, modalVars>>

\* setTheme writing the partial's tokens into the active category objects,
\* Object.assign(activeTheme.<category>, newTheme.<category>).
SetThemeInPlace(newTheme) ==
  /\ StoreTheme([c \in Categories |->
                   [heap[c] EXCEPT ![activeTheme[c]] = Spread(@, CategoryOf(newTheme, c))]],
                activeTheme, held)
  /\ ClearCache
  /\ UNCHANGED <<elemVars, modalVars>>

\* setTheme(newTheme): a new top-level object whose six categories are new
\* objects, each the spread of the active category and the partial's category.
\* (The leading ...activeTheme, ...newTheme entries are all overwritten by the
\* six category entries for a partial over the schema's categories.)
SetTheme(newTheme) ==
  LET merged == [c \in Categories |-> Spread(heap[c][activeTheme[c]], CategoryOf(newTheme, c))]
      grown == [c \in Categories |-> (NewObject :> merged[c]) @@ heap[c]]
  IN  /\ StoreTheme(grown, [c \in Categories |-> NewObject], held)
      /\ ClearCache
      /\ UNCHANGED <<elemVars, modalVars>>

\* getTheme(): { ...activeTheme }, a new top-level object with the same category references.
GetTheme ==
  /\ StoreTheme(heap, activeTheme, activeTheme)
  /\ UNCHANGED <<styleVars, elemVars, modalVars>>

\* resetTheme that leaves the style cache as it is.
ResetThemeKeepCache ==
  /\ StoreTheme(heap, defaultTheme, held)
  /\ returned' = {}
  /\ stale' = stale \cup {e.cls : e \in returned}
  /\ epochStart' = Len(styleSheet)
  /\ UNCHANGED <<styleCache, styleSheet, uniqueId, elemVars, modalVars>>

\* resetTheme(): activeTheme = { ...defaultTheme }; styleCache.clear()
ResetTheme ==
  /\ StoreTheme(heap, defaultTheme, held)
  /\ ClearCache
  /\ UNCHANGED <<elemVars, modalVars>>

\* ---- what a client does with a getTheme() result ------------------------

TokenEdits == { [category |-> "spacing", token |-> "md", value |-> "2rem"],
                [category |-> "colors", token |-> "primary", value |-> "#000000"] }

\* t = getTheme(); t.<category>.<token> = value
MutateHeldToken(e) ==
  /\ held # NoTheme
  /\ heap[e.category][held[e.category]][e.token] # e.value
  /\ StoreTheme([heap EXCEPT ![e.category][held[e.category]][e.token] = e.value],
                activeTheme, held)
  /\ UNCHANGED <<styleVars, elemVars, modalVars>>

\* t = getTheme(); t.<category> = { <token>: value }
ReplaceHeldCategory(e) ==
  /\ held # NoTheme
  /\ heap[e.category][held[e.category]] # (e.token :> e.value)
  /\ StoreTheme(WithNew(heap, e.category, (e.token :> e.value)),
                activeTheme, [held EXCEPT ![e.category] = NewObject])
  /\ UNCHANGED <<styleVars, elemVars, modalVars>>

\* ---- element builder ----------------------------------------------------

\* removeChild
Remove(seq, x) == SelectSeq(seq, LAMBDA y : y # x)

\* A child inserted before the other children instead of after them.
insertFirst(children, child) == <<child>> \o Remove(children, child)

\* parent.appendChild(child) on the children of parent: the child becomes the
\* last child; a node that is already a child is moved, not duplicated.
appendChild(children, child) == Append(Remove(children, child), child)

\* No className property.
NoClass == [kind |-> "absent"]

\* An empty className string.
EmptyClass == [kind |-> "string", s |-> ""]

\* The className property: absent, a string, or an array whose falsy entries are "".
ClassNameProps ==
  { [kind |-> "absent"],
    [kind |-> "string", s |-> "foo"],
    [kind |-> "array", a |-> <<"foo", "", "bar">>] }

\* The cssStyles property: absent or a style description.
CssStylesProps == {"absent", "red"}

\* element.classList.add(c)
ClassListAdd(list, c) == IF \E i \in 1..Len(list) : list[i] = c THEN list ELSE Append(list, c)

\* className.filter(Boolean): the truthy entries, in order.
FilterBoolean(a) == SelectSeq(a, LAMBDA s : s # "")

\* The class tokens of the node after `if (className) { element.className = ... }`.
ApplyClassName(list, className) ==
  CASE className.kind = "absent" -> list
    [] className.kind = "string" -> IF className.s = "" THEN list ELSE <<className.s>>
    [] className.kind = "array"  -> FilterBoolean(className.a)

\* createElement(tag, { cssStyles, className }) on the style state st: the
\* node built and the style state after the css call it makes.
Build(st, tag, entries, hasStyles, className) ==
  LET r == IF hasStyles THEN Css(st, entries)
           ELSE [cache |-> st.cache, sheet |-> st.sheet, uid |-> st.uid, cls |-> "", text |-> <<>>]
      generated == IF hasStyles THEN ClassListAdd(<<>>, r.cls) ELSE <<>>
  IN  [node |-> [tag |-> tag, classList |-> ApplyClassName(generated, className)],
       style |-> r]

\* The children property: absent, a string, a node, or an array of entries;
\* an entry is null, false, a string or a node.
NoChildren == [kind |-> "absent"]
nodeX == [kind |-> "node", id |-> "nodeX", text |-> "x"]
ChildEntries == { [kind |-> "null"], [kind |-> "false"], [kind |-> "string", s |-> "a"], nodeX }
ChildArrays == UNION { [1..n -> ChildEntries] : n \in 0..MaxChildren }
ChildrenProps ==
  { NoChildren, [kind |-> "string", s |-> "a"], [kind |-> "string", s |-> ""], nodeX }
  \cup { [kind |-> "array", a |-> a] : a \in ChildArrays }

\* if (child) that lets every entry through.
TruthyAlways(c) == TRUE

\* if (child): null, false and the empty string are falsy.
Truthy(c) == c.kind = "node" \/ (c.kind = "string" /\ c.s # "")

\* document.createTextNode(s): a new text node; k tells the nodes one call creates apart.
createTextNode(s, k) == [kind |-> "text", data |-> s, n |-> k]

RECURSIVE AppendEach(_, _, _)
\* children.forEach from entry k on: each truthy entry is appended, a string as a text node.
AppendEach(list, a, k) ==
  IF k > Len(a) THEN list
  ELSE AppendEach(IF Truthy(a[k])
                  THEN appendChild(list, IF a[k].kind = "string" THEN createTextNode(a[k].s, k) ELSE a[k])
                  ELSE list,
                  a, k + 1)

\* The child nodes of the new node after `if (children) { ... }`.
AppendChildren(children) ==
  CASE children.kind = "absent" -> <<>>
    [] children.kind = "string" -> IF children.s = "" THEN <<>> ELSE <<createTextNode(children.s, 0)>>
    [] children.kind = "node"   -> appendChild(<<>>, children)
    [] children.kind = "array"  -> AppendEach(<<>>, children.a, 1)

\* History: the call repeats the latest createElement call, with the same
\* node description and no theme change in between.
Repeats(props) ==
  /\ element # NoNode
  /\ element.by = "createElement"
  /\ element.props = props
  /\ (props.cssStyles = "absent" \/ element.generatedClass \notin stale)

CreateElement(d, className, children) ==
  LET entries == IF d = "absent" THEN <<>> ELSE Resolve(d, Deref(heap, activeTheme))
      b == Build(StyleState, "div", entries, d # "absent", className)
      props == [cssStyles |-> d, className |-> className, children |-> children]
  IN  /\ b.style.uid <= MaxRules
      /\ SetStyle(b.style)
      /\ returned' = IF d = "absent" THEN returned ELSE Logged(returned, b.style)
      /\ element' = [by |-> "createElement", tag |-> b.node.tag, classList |-> b.node.classList,
                      generatedClass |-> b.style.cls,
                      children |-> AppendChildren(children),
                      props |-> props,
                      repeat |-> Repeats(props)]
      /\ UNCHANGED <<stale, epochStart, themeVars, modalVars>>

\* ---- Button ------------------------------------------------------------

\* One entry of { ...a, ...b }: a key a already has keeps its place and takes
\* the new value, a new key goes to the end.
PutEntry(a, e) ==
  IF \E i \in 1..Len(a) : a[i].key = e.key
  THEN [i \in 1..Len(a) |-> IF a[i].key = e.key THEN e ELSE a[i]]
  ELSE Append(a, e)

RECURSIVE SpreadEntries(_, _)
\* { ...a, ...b } on style mappings kept as sequences of entries.
SpreadEntries(a, b) == IF b = <<>> THEN a ELSE SpreadEntries(PutEntry(a, Head(b)), Tail(b))

\* theme.colors[type]
ThemeColor(tv, type) == IF type \in DOMAIN tv.colors THEN tv.colors[type] ELSE "undefined"

\* sizeMap[size]
ButtonSizeMap(tv, size) ==
  CASE size = "small"  -> << [key |-> "padding", value |-> <<tv.spacing.xs, " ", tv.spacing.sm>>],
                             [key |-> "fontSize", value |-> <<"0.875rem">>] >>
    [] size = "medium" -> << [key |-> "padding", value |-> <<tv.spacing.sm, " ", tv.spacing.md>>],
                             [key |-> "fontSize", value |-> <<"1rem">>] >>
    [] size = "large"  -> << [key |-> "padding", value |-> <<tv.spacing.md, " ", tv.spacing.lg>>],
                             [key |-> "fontSize", value |-> <<"1.125rem">>] >>

\* One entry of typeStyles.
TypeStyle(background, color, hover) ==
  << [key |-> "backgroundColor", value |-> <<background>>],
     [key |-> "color", value |-> <<color>>],
     [key |-> "&:hover", nested |-> <<[key |-> "backgroundColor", value |-> <<hover>>]>>] >>

\* typeStyles[type]
TypeStyles(tv, type) ==
  CASE type = "default"   -> TypeStyle(tv.colors.light, tv.colors.dark, "#e2e6ea")
    [] type = "primary"   -> TypeStyle(tv.colors.primary, "white", "#3a59c7")
    [] type = "secondary" -> TypeStyle(tv.colors.secondary, "white", "#5a6268")
    [] type = "success"   -> TypeStyle(tv.colors.success, "white", "#218838")
    [] type = "danger"    -> TypeStyle(tv.colors.danger, "white", "#c82333")

\* getTypeStyles(theme) of a Button with the given props.
getTypeStyles(tv, p) ==
  LET baseStyles ==
        << [key |-> "display", value |-> <<"inline-flex">>],
           [key |-> "alignItems", value |-> <<"center">>],
           [key |-> "justifyContent", value |-> <<"center">>],
           [key |-> "gap", value |-> <<"0.5rem">>],
           [key |-> "border", value |-> <<"none">>],
           [key |-> "borderRadius", value |-> <<tv.borderRadius.md>>],
           [key |-> "fontFamily", value |-> <<tv.typography.fontFamily>>],
           [key |-> "fontWeight", value |-> <<"500">>],
           [key |-> "cursor", value |-> <<"pointer">>],
           [key |-> "transition", value |-> <<tv.transitions.default>>] >>
      outlineStyles ==
        IF p.outline
        THEN << [key |-> "backgroundColor", value |-> <<"transparent">>],
                [key |-> "border", value |-> <<"1px solid ", ThemeColor(tv, p.type)>>],
                [key |-> "color", value |-> <<ThemeColor(tv, p.type)>>],
                [key |-> "&:hover", nested |-> << [key |-> "backgroundColor", value |-> <<ThemeColor(tv, p.type)>>],
                                                 [key |-> "color", value |-> <<"white">>] >>] >>
        ELSE <<>>
      widthStyles == IF p.full THEN <<[key |-> "width", value |-> <<"100%">>]>> ELSE <<>>
      disabledStyles ==
        IF p.disabled
        THEN << [key |-> "opacity", value |-> <<"0.65">>],
                [key |-> "cursor", value |-> <<"not-allowed">>],
                [key |-> "&:hover", nested |-> <<[key |-> "backgroundColor", value |-> <<ThemeColor(tv, p.type)>>]>>] >>
        ELSE <<>>
  IN  SpreadEntries(SpreadEntries(SpreadEntries(SpreadEntries(SpreadEntries(baseStyles,
        ButtonSizeMap(tv, p.size)), TypeStyles(tv, p.type)), outlineStyles), widthStyles), disabledStyles)

\* The style switches of a Button: the defaults, and every switch set.
PlainButton == [type |-> "default", size |-> "medium", disabled |-> FALSE, full |-> FALSE, outline |-> FALSE]
LoudButton == [type |-> "primary", size |-> "large", disabled |-> TRUE, full |-> TRUE, outline |-> TRUE]

\* A Button props object: label, icon, the style switches v, and the remaining props.
ButtonProp(l, i, v, r) ==
  [label |-> l, icon |-> i, type |-> v.type, size |-> v.size, disabled |-> v.disabled,
   full |-> v.full, outline |-> v.outline, rest |-> r]

\* The Button props explored: a label, an icon that is null, a string or a
\* node, and remaining props that are empty or hold a children property.
ButtonProps ==
  { ButtonProp("Test", [kind |-> "null"], PlainButton, EmptyMap),
    ButtonProp("Test", [kind |-> "string", s |-> "+"], LoudButton, EmptyMap),
    ButtonProp("Test", nodeX, PlainButton, EmptyMap),
    ButtonProp("", [kind |-> "string", s |-> "+"], PlainButton, EmptyMap),
    ButtonProp("Test", [kind |-> "null"], PlainButton, [children |-> [kind |-> "string", s |-> "X"]]),
    ButtonProp("Test", nodeX, LoudButton, [children |-> [kind |-> "array", a |-> <<nodeX>>]]) }

\* Button whose children are the icon alone.
ButtonNoLabel(p) ==
  LET b == Build(StyleState, "button", getTypeStyles(Deref(heap, activeTheme), p), TRUE, NoClass)
      children == IF "children" \in DOMAIN p.rest THEN p.rest.children
                  ELSE [kind |-> "array", a |-> <<p.icon>>]
  IN  /\ b.style.uid <= MaxRules
      /\ SetStyle(b.style)
      /\ returned' = Logged(returned, b.style)
      /\ element' = [by |-> "Button", tag |-> b.node.tag, classList |-> b.node.classList,
                      generatedClass |-> b.style.cls,
                      children |-> AppendChildren(children),
                      props |-> p,
                      repeat |-> FALSE]
      /\ UNCHANGED <<stale, epochStart, themeVars, modalVars>>

\* Button(props): createElement('button', { cssStyles: getTypeStyles, disabled,
\* onClick, children: [icon, label], ...rest }); a children property among
\* the remaining props replaces [icon, label].
Button(p) ==
  LET b == Build(StyleState, "button", getTypeStyles(Deref(heap, activeTheme), p), TRUE, NoClass)
      children == IF "children" \in DOMAIN p.rest THEN p.rest.children
                  ELSE [kind |-> "array", a |-> <<p.icon, [kind |-> "string", s |-> p.label]>>]
  IN  /\ b.style.uid <= MaxRules
      /\ SetStyle(b.style)
      /\ returned' = Logged(returned, b.style)
      /\ element' = [by |-> "Button", tag |-> b.node.tag, classList |-> b.node.classList,
                      generatedClass |-> b.style.cls,
                      children |-> AppendChildren(children),
                      props |-> p,
                      repeat |-> FALSE]
      /\ UNCHANGED <<stale, epochStart, themeVars, modalVars>>

\* ---- Modal --------------------------------------------------------------

Plain(k, v) == [key |-> k, value |-> <<v>>]

\* sizeMap[size]
SizeMap(size) ==
  CASE size = "small"      -> <<Plain("width", "300px")>>
    [] size = "medium"     -> <<Plain("width", "500px")>>
    [] size = "large"      -> <<Plain("width", "800px")>>
    [] size = "fullscreen" -> <<Plain("width", "95vw"), Plain("height", "95vh")>>

overlayStyles(tv) ==
  << Plain("position", "fixed"), Plain("top", "0"), Plain("left", "0"), Plain("right", "0"),
     Plain("bottom", "0"), Plain("backgroundColor", "rgba(0, 0, 0, 0.5)"), Plain("display", "flex"),
     Plain("alignItems", "center"), Plain("justifyContent", "center"), Plain("zIndex", "1000") >>

getModalStyles(tv, size) ==
  << Plain("backgroundColor", tv.colors.background), Plain("borderRadius", tv.borderRadius.md),
     Plain("boxShadow", tv.shadows.lg), Plain("display", "flex"), Plain("flexDirection", "column"),
     Plain("maxHeight", "90vh"), Plain("overflow", "hidden"), Plain("position", "relative"),
     Plain("zIndex", "1001") >> \o SizeMap(size)

modalHeaderStyles(tv) ==
  << Plain("display", "flex"), Plain("justifyContent", "space-between"), Plain("alignItems", "center"),
     Plain("padding", tv.spacing.md),
     [key |-> "borderBottom", value |-> <<"1px solid ", tv.colors.border>>] >>

modalTitleStyles(tv) ==
  << Plain("margin", "0"), Plain("fontWeight", "bold"), Plain("fontSize", "1.25rem") >>

closeButtonStyles(tv) ==
  << Plain("background", "none"), Plain("border", "none"), Plain("cursor", "pointer"),
     Plain("fontSize", "1.5rem"), Plain("lineHeight", "1"), Plain("padding", "0"),
     Plain("color", tv.colors.secondary),
     [key |-> "&:hover", nested |-> <<Plain("color", tv.colors.dark)>>] >>

modalContentStyles(tv) ==
  << Plain("flex", "1 1 auto"), Plain("padding", tv.spacing.md), Plain("overflowY", "auto") >>

modalFooterStyles(tv) ==
  << Plain("padding", tv.spacing.md),
     [key |-> "borderTop", value |-> <<"1px solid ", tv.colors.border>>],
     Plain("display", "flex"), Plain("justifyContent", "flex-end"), Plain("gap", tv.spacing.sm) >>

\* animate(element, keyframes, options): the handle of a started animation.
animate(target, keyframes) ==
  [target |-> target, keyframes |-> keyframes, duration |-> 200, onfinish |-> FALSE, finished |-> FALSE]

\* Modal(props) with isOpen true: the createElement calls in source order, the
\* overlay appended to document.body, and the two enter animations.  The
\* instance keeps what its listeners close over: whether the close button is
\* in the header (title given), whether onClose is a function, and whether the
\* client's onClose has been called.
ModalOpen(hasTitle, hasFooter, size, hasOnClose) ==
  LET tv == Deref(heap, activeTheme)
      b1 == Build(StyleState, "button", closeButtonStyles(tv), TRUE, NoClass)
      b2 == Build(b1.style, "h3", modalTitleStyles(tv), TRUE, NoClass)
      b3 == IF hasTitle THEN Build(b2.style, "div", modalHeaderStyles(tv), TRUE, NoClass)
            ELSE [node |-> NoNode, style |-> b2.style]
      b4 == Build(b3.style, "div", modalContentStyles(tv), TRUE, NoClass)
      b5 == IF hasFooter THEN Build(b4.style, "div", modalFooterStyles(tv), TRUE, NoClass)
            ELSE [node |-> NoNode, style |-> b4.style]
      b6 == Build(b5.style, "div", getModalStyles(tv, size), TRUE, NoClass)
      b7 == Build(b6.style, "div", overlayStyles(tv), TRUE, NoClass)
      id == Len(modals) + 1
      log == UNION ({Logged({}, b.style) : b \in {b1, b2, b4, b6, b7}}
                    \cup (IF hasTitle THEN {Logged({}, b3.style)} ELSE {})
                    \cup (IF hasFooter THEN {Logged({}, b5.style)} ELSE {}))
  IN  /\ Len(modals) < MaxModals
      /\ SetStyle(b7.style)
      /\ returned' = returned \cup log
      /\ modals' = Append(modals,
           [overlay |-> [tag |-> "div", classList |-> b7.node.classList, children |-> <<"modalElement">>],
            modalElement |-> [tag |-> "div", classList |-> b6.node.classList,
                              children |-> (IF hasTitle THEN <<"modalHeader">> ELSE <<>>)
                                           \o <<"modalContent">>
                                           \o (IF hasFooter THEN <<"modalFooter">> ELSE <<>>)],
            anims |-> <<animate("overlay", "fadeIn"), animate("modalElement", "scaleIn")>>,
            closeButton |-> hasTitle,
            onClose |-> hasOnClose,
            notified |-> FALSE])
      /\ body' = appendChild(body, id)
      /\ modalResult' = id
      /\ UNCHANGED <<stale, epochStart, themeVars, elemVars>>

\* Modal(props) that builds and attaches whatever isOpen says.
ModalNoGuard(props) == ModalOpen(props.title, props.footer, props.size, props.onClose)

\* Modal(props): `if (!isOpen) return null`, otherwise the instance is built.
Modal(props) ==
  IF ~props.isOpen
  THEN /\ modalResult' = Null
       /\ UNCHANGED <<modals, body, themeVars, styleVars, elemVars>>
  ELSE ModalOpen(props.title, props.footer, props.size, props.onClose)

\* overlay.parentNode of instance i
Attached(i) == \E k \in 1..Len(body) : body[k] = i

RECURSIVE ExitsStarted(_)
\* The number of cleanup calls that have started exit animations, over the
\* first n instances (each instance starts with the two enter animations).
ExitsStarted(n) ==
  IF n = 0 THEN 0 ELSE ExitsStarted(n - 1) + ((Len(modals[n].anims) - 2) \div 2)

\* cleanup without its guard: the exit animations start whether or not the
\* overlay is attached.
cleanupNoGuard(m, attached) ==
  [m EXCEPT !.anims = @ \o << [animate("overlay", "fadeOut") EXCEPT !.onfinish = TRUE],
                              animate("modalElement", "scaleOut") >>]

\* The body of cleanup on the instance record m: while the overlay is attached,
\* start the two exit animations and set the overlay animation's onfinish.
cleanup(m, attached) ==
  IF attached
  THEN [m EXCEPT !.anims = @ \o << [animate("overlay", "fadeOut") EXCEPT !.onfinish = TRUE],
                                   animate("modalElement", "scaleOut") >>]
  ELSE m

\* cleanup that detaches the overlay at once, without waiting for the animation.
CleanupSync(i) ==
  /\ i \in 1..Len(modals)
  /\ ExitsStarted(Len(modals)) < MaxClose
  /\ Attached(i)
  /\ modals' = [modals EXCEPT ![i].anims =
                  @ \o << animate("overlay", "fadeOut"), animate("modalElement", "scaleOut") >>]
  /\ body' = Remove(body, i)
  /\ UNCHANGED <<modalResult, themeVars, styleVars, elemVars>>

\* modalElement.cleanup() of instance i, called by the client.
Cleanup(i) ==
  /\ i \in 1..Len(modals)
  /\ ExitsStarted(Len(modals)) < MaxClose
  /\ modals' = [modals EXCEPT ![i] = cleanup(@, Attached(i))]
  /\ UNCHANGED <<body, modalResult, themeVars, styleVars, elemVars>>

\* The client's onClose callback, when it is a function: recorded as called.
CallOnClose(m) == IF m.onClose THEN [m EXCEPT !.notified = TRUE] ELSE m

\* A click on the close button of instance i (the button is in the header, so
\* only with a title): its listeners in the order they were added, onClose
\* (the onClick property) and then cleanup; the click bubbles to the overlay,
\* whose handler sees a target other than the overlay.
ClickCloseButton(i) ==
  /\ i \in 1..Len(modals)
  /\ modals[i].closeButton
  /\ ExitsStarted(Len(modals)) < MaxClose
  /\ modals' = [modals EXCEPT ![i] = cleanup(CallOnClose(@), Attached(i))]
  /\ UNCHANGED <<body, modalResult, themeVars, styleVars, elemVars>>

\* The nodes of an instance a click can land on below the close button.
ClickTargets == {"overlay", "modalElement"}

\* A click inside the overlay of instance i that reaches handleOverlayClick:
\* if (e.target === e.currentTarget && onClose) onClose()
ClickOverlay(i, target) ==
  /\ i \in 1..Len(modals)
  /\ Attached(i)
  /\ modals' = [modals EXCEPT ![i] = IF target = "overlay" THEN CallOnClose(@) ELSE @]
  /\ UNCHANGED <<body, modalResult, themeVars, styleVars, elemVars>>

\* A completion notification that detaches the last child of the body, whatever
\* instance it belongs to, instead of the overlay its handler closes over.
OnFinishDetachLast(i, a) ==
  /\ i \in 1..Len(modals)
  /\ a \in 1..Len(modals[i].anims)
  /\ modals[i].anims[a].onfinish
  /\ ~modals[i].anims[a].finished
  /\ modals' = [modals EXCEPT ![i].anims[a].finished = TRUE]
  /\ body' = IF Attached(i) THEN SubSeq(body, 1, Len(body) - 1) ELSE body
  /\ UNCHANGED <<modalResult, themeVars, styleVars, elemVars>>

\* The completion notification of animation a of instance i: its onfinish
\* handler detaches the overlay if it is still attached.
OnFinish(i, a) ==
  /\ i \in 1..Len(modals)
  /\ a \in 1..Len(modals[i].anims)
  /\ modals[i].anims[a].onfinish
  /\ ~modals[i].anims[a].finished
  /\ modals' = [modals EXCEPT ![i].anims[a].finished = TRUE]
  /\ body' = IF Attached(i) THEN Remove(body, i) ELSE body
  /\ UNCHANGED <<modalResult, themeVars, styleVars, elemVars>>

\* ---- specifications -----------------------------------------------------

Init ==
  /\ heap = [c \in Categories |-> (DefaultObject :> DefaultTokens[c])]
  /\ activeTheme = defaultTheme
  /\ held = NoTheme
  /\ styleCache = EmptyMap
  /\ styleSheet = <<>>
  /\ uniqueId = 0
  /\ returned = {}
  /\ stale = {}
  /\ epochStart = 0
  /\ element = NoNode
  /\ modals = <<>>
  /\ body = <<>>
  /\ modalResult = Null

\* The style engine, the element builder and the theme store.
Next ==
  \/ \E d \in Descriptions : CssCall(d)
  \/ \E d \in CssStylesProps, cn \in ClassNameProps : CreateElement(d, cn, NoChildren)
  \/ \E p \in StylePartials : SetTheme(p)
  \/ ResetTheme

Spec == Init /\ [][Next]_vars

\* The theme store and its readers.
NextTheme ==
  \/ \E d \in ThemeDescriptions : CssCall(d)
  \/ \E p \in Partials : SetTheme(p)
  \/ ResetTheme
  \/ GetTheme

SpecTheme == Init /\ [][NextTheme]_vars

\* The theme store with a client that writes to the object getTheme returned.
NextMut ==
  \/ \E p \in StylePartials : SetTheme(p)
  \/ ResetTheme
  \/ GetTheme
  \/ \E e \in TokenEdits : MutateHeldToken(e)
  \/ \E e \in TokenEdits : ReplaceHeldCategory(e)

SpecMut == Init /\ [][NextMut]_vars

\* The element builder on the children property.
NextChildren ==
  \E ch \in ChildrenProps, cn \in {NoClass, EmptyClass} : CreateElement("absent", cn, ch)

SpecChildren == Init /\ [][NextChildren]_vars

\* The Button component under theme changes.
NextButton ==
  \/ \E p \in ButtonProps : Button(p)
  \/ \E p \in StylePartials : SetTheme(p)
  \/ ResetTheme

SpecButton == Init /\ [][NextButton]_vars

\* The Modal lifecycle.
NextModal ==
  \/ \E p \in ModalProps : Modal(p)
  \/ \E i \in 1..MaxModals : Cleanup(i)
  \/ \E i \in 1..MaxModals : ClickCloseButton(i)
  \/ \E i \in 1..MaxModals, t \in ClickTargets : ClickOverlay(i, t)
  \/ \E i \in 1..MaxModals, a \in 1..(2 + 2 * MaxClose) : OnFinish(i, a)

SpecModal == Init /\ [][NextModal]_vars

\* The Modal lifecycle where every started exit animation finishes: the render
\* surface delivers the completion notification of each animation.
SpecModalFair ==
  /\ Init
  /\ [][NextModal]_vars
  /\ \A i \in 1..MaxModals, a \in 1..(2 + 2 * MaxClose) : WF_vars(OnFinish(i, a))

\* ---- properties ---------------------------------------------------------

MarginText(v) == <<"margin", ": ", v, ";">>

\* The rules inserted since the last theme change whose body is the text.
RulesFor(text) == {k \in (epochStart + 1)..Len(styleSheet) : SameText(styleSheet[k].body, text)}

\* C1: style descriptions that resolve under the same active theme to the same
\* rule text get the same class name, and exactly one rule is registered for
\* that text however often css is called.
C1_SameTextOneClassOneRule ==
  \A a \in returned :
    /\ \A b \in returned : SameText(a.text, b.text) => a.cls = b.cls
    /\ Cardinality(RulesFor(a.text)) = 1

\* C2: style descriptions that resolve to distinct rule text get distinct class names.
C2_DistinctTextDistinctClass ==
  \A a, b \in returned : ~SameText(a.text, b.text) => a.cls # b.cls

InList(list, c) == \E k \in 1..Len(list) : list[k] = c

\* The literal classes a className property names.
LiteralClasses(className) ==
  CASE className.kind = "absent" -> {}
    [] className.kind = "string" -> IF className.s = "" THEN {} ELSE {className.s}
    [] className.kind = "array"  -> {className.a[k] : k \in 1..Len(className.a)} \ {""}

\* C3: a node built from both cssStyles and a literal className carries the
\* class css generated and the literal classes.
C3_ClassNameKeepsGeneratedClass ==
  (element # NoNode /\ element.props.cssStyles # "absent"
     /\ LiteralClasses(element.props.className) # {})
  => /\ InList(element.classList, element.generatedClass)
     /\ \A c \in LiteralClasses(element.props.className) : InList(element.classList, c)

\* What later getTheme, resetTheme and theme-dependent css calls observe.
Observed ==
  << Deref(heap, activeTheme), Deref(heap, defaultTheme),
     CssString(Resolve("margin", Deref(heap, activeTheme))) >>

ClientWrite ==
  \E e \in TokenEdits : MutateHeldToken(e) \/ ReplaceHeldCategory(e)

\* C4: no write to the value getTheme returned, to a whole category or to a
\* token inside one, changes what later getTheme, resetTheme or css calls observe.
C4_GetThemeIsDefensiveCopy == [][ClientWrite => Observed' = Observed]_vars

\* C5: setTheme leaves every category absent from the partial unchanged, and in
\* a category of the partial every token the partial does not name; all six
\* default categories remain present.
C5_SetThemeKeepsTheRest ==
  [][\A p \in Partials :
       SetTheme(p) =>
         /\ Categories \subseteq DOMAIN activeTheme'
         /\ \A c \in Categories :
              LET before == heap[c][activeTheme[c]]
                  after == heap'[c][activeTheme'[c]]
              IN  /\ c \notin DOMAIN p => after = before
                  /\ \A t \in DOMAIN before :
                       t \notin DOMAIN CategoryOf(p, c) =>
                         t \in DOMAIN after /\ after[t] = before[t]]_vars

\* Two setTheme calls have changed one token in each of two categories.
C5_Witness ==
  /\ heap["spacing"][activeTheme["spacing"]] = [DefaultTokens["spacing"] EXCEPT !["md"] = "2rem"]
  /\ heap["colors"][activeTheme["colors"]] = [DefaultTokens["colors"] EXCEPT !["primary"] = "#000000"]
  /\ \A c \in Categories \ {"spacing", "colors"} : heap[c][activeTheme[c]] = DefaultTokens[c]

\* C6: after any setTheme calls, resetTheme followed by getTheme yields a token
\* set structurally equal to the initial default token set.
C6_ResetRestoresDefault ==
  [][/\ ResetTheme => Deref(heap', activeTheme') = DefaultTokens
     /\ (GetTheme /\ Deref(heap, activeTheme) = DefaultTokens)
          => Deref(heap', held') = DefaultTokens]_vars

\* A rule minted under spacing.md = 2rem is in the sheet (setTheme has acted),
\* the theme has been reset since, and getTheme has returned the default tokens.
C6_Witness ==
  /\ \E k \in 1..Len(styleSheet) : SameText(styleSheet[k].body, MarginText("2rem"))
  /\ activeTheme = defaultTheme
  /\ held # NoTheme
  /\ Deref(heap, held) = DefaultTokens

\* C7: after a theme change css resolves a theme-dependent description against
\* the new value, and no class returned before the change is returned after it.
C7_ThemeChangeGivesNewClass ==
  \A e \in returned :
    /\ e.cls \notin stale
    /\ e.text[1] = "margin"
         => SameText(e.text, CssString(Resolve("margin", Deref(heap, activeTheme))))

\* css resolved the margin description to 1rem before setTheme and to 2rem
\* after it, and returned a different class.
C7_Witness ==
  \E e \in returned, k \in 1..epochStart :
    /\ SameText(e.text, MarginText("2rem"))
    /\ SameText(styleSheet[k].body, MarginText("1rem"))
    /\ styleSheet[k].selector \in stale
    /\ e.cls # styleSheet[k].selector

\* C8: the stylesheet never contains two rules with the same class name.
C8_NoTwoRulesWithOneClass ==
  \A i, j \in 1..Len(styleSheet) :
    i # j => styleSheet[i].selector # styleSheet[j].selector

\* Rules for the same text were inserted before and after a theme change.
C8_Witness ==
  \E i \in 1..epochStart, j \in (epochStart + 1)..Len(styleSheet) :
    SameText(styleSheet[i].body, styleSheet[j].body)

\* Instance i is Closing: attached, with an exit animation whose completion is pending.
Closing(i) ==
  /\ Attached(i)
  /\ \E a \in 1..Len(modals[i].anims) :
       modals[i].anims[a].onfinish /\ ~modals[i].anims[a].finished

\* C9: a close request leaves the overlay attached; the overlay is detached
\* only by the completion notification of its exit animation.
C9_DetachOnlyOnFinish ==
  [][\A i \in 1..Len(modals) :
       /\ (Cleanup(i) /\ Attached(i)) => Attached(i)'
       /\ (Attached(i) /\ ~Attached(i)')
            => \E a \in 1..Len(modals[i].anims) : OnFinish(i, a)]_vars

\* A close was requested on an instance and its overlay is still attached,
\* while another instance's overlay has been detached by its notification.
C9_Witness ==
  \E i, j \in 1..Len(modals) :
    /\ Closing(i)
    /\ ~Attached(j)
    /\ \E a \in 1..Len(modals[j].anims) : modals[j].anims[a].finished

\* C10: a close request on an instance that is already Closing starts no
\* animation, registers no completion handler and changes nothing else.
C10_SecondCloseIsNoOp ==
  [][\A i \in 1..Len(modals) : (Cleanup(i) /\ Closing(i)) => UNCHANGED vars]_vars

\* Instance i is Open: attached, and no exit animation has been started.
Open(i) == Attached(i) /\ Len(modals[i].anims) = 2

\* The step starts the two exit animations of instance i.
StartsExit(i) ==
  /\ Len(modals'[i].anims) = Len(modals[i].anims) + 2
  /\ modals'[i].anims[Len(modals[i].anims) + 1].target = "overlay"
  /\ modals'[i].anims[Len(modals[i].anims) + 1].keyframes = "fadeOut"
  /\ modals'[i].anims[Len(modals[i].anims) + 2].target = "modalElement"
  /\ modals'[i].anims[Len(modals[i].anims) + 2].keyframes = "scaleOut"

\* C11: on an open instance each close trigger starts the two exit animations:
\* a click on the close button, a click whose target is the overlay itself,
\* and a call of cleanup; a click whose target is the content node does not.
C11_CloseTriggersStartExit ==
  [][\A i \in 1..Len(modals) :
       Open(i) =>
         /\ ClickCloseButton(i) => StartsExit(i)
         /\ ClickOverlay(i, "overlay") => StartsExit(i)
         /\ Cleanup(i) => StartsExit(i)
         /\ ClickOverlay(i, "modalElement") => modals'[i].anims = modals[i].anims]_vars

\* C12: Modal with isOpen false returns no node, creates and attaches nothing,
\* inserts no rule and starts no animation.
C12_ClosedModalDoesNothing ==
  [][\A p \in ModalProps :
       (~p.isOpen /\ Modal(p)) =>
         /\ modalResult' = Null
         /\ UNCHANGED <<modals, body, styleCache, styleSheet, uniqueId, element>>]_vars

\* Modal was called with isOpen false after an instance had been opened and closed.
C12_Witness ==
  /\ modalResult = Null
  /\ Len(modals) > 0
  /\ body = <<>>

\* C13: Modal with isOpen true attaches exactly one new overlay as the last
\* child of document.body, with the content node as its only child, starts the
\* two enter animations, and the instance is attached when the call returns.
C13_OpenAttachesOneOverlayLast ==
  [][\A p \in ModalProps :
       (p.isOpen /\ Modal(p)) =>
         LET id == Len(modals) + 1
         IN  /\ Len(modals') = id
             /\ modalResult' = id
             /\ body' = body \o <<id>>
             /\ \E k \in 1..Len(body') : body'[k] = id
             /\ modals'[id].overlay.children = <<"modalElement">>
             /\ Len(modals'[id].anims) = 2
             /\ \A a \in 1..2 : /\ modals'[id].anims[a].duration = 200
                                /\ ~modals'[id].anims[a].finished
             /\ modals'[id].anims[1].target = "overlay"
             /\ modals'[id].anims[1].keyframes = "fadeIn"
             /\ modals'[id].anims[2].target = "modalElement"
             /\ modals'[id].anims[2].keyframes = "scaleIn"]_vars

\* A second instance was opened while the first was attached: its overlay is
\* the last child of document.body.
C13_Witness ==
  /\ Len(modals) = 2
  /\ body = <<1, 2>>
  /\ modalResult = 2

\* Instance i exists and its overlay has been detached.
Closed(i) == i \in 1..Len(modals) /\ ~Attached(i)

\* C19: once a close was requested on an attached overlay and the completion
\* notifications fire, the overlay is eventually detached; a detached overlay
\* is never attached again, and a later close request on the instance starts
\* no animation and changes nothing.
C19_ClosedIsTerminal ==
  /\ \A i \in 1..MaxModals :
       (i \in 1..Len(modals) /\ Closing(i)) ~> Closed(i)
  /\ [][\A i \in 1..Len(modals) :
          ~Attached(i) =>
            /\ ~Attached(i)'
            /\ Cleanup(i) => UNCHANGED vars
            /\ ClickCloseButton(i) => (modals'[i].anims = modals[i].anims /\ body' = body)]_vars

\* An instance was closed and detached by its notification while close
\* requests can still be made on it; another instance was opened after it.
C19_Witness ==
  /\ Len(modals) = 2
  /\ body = <<2>>
  /\ \E a \in 1..Len(modals[1].anims) : modals[1].anims[a].finished
  /\ modals[1].closeButton
  /\ ExitsStarted(Len(modals)) < MaxClose

\* C17: the stylesheet is append-only: every step keeps the rules it had, in
\* place and unedited, and new rules come after them.
C17_SheetIsAppendOnly ==
  [][/\ Len(styleSheet') >= Len(styleSheet)
     /\ SubSeq(styleSheet', 1, Len(styleSheet)) = styleSheet]_vars

\* Rules were inserted, the theme was changed, and a rule was inserted after
\* the change behind the rules of the old theme.
C17_Witness ==
  /\ epochStart >= 2
  /\ Len(styleSheet) > epochStart
  /\ styleSheet[1].selector \in stale

\* A theme change: setTheme with any of the partials, or resetTheme (neither
\* touches the stylesheet or a built node, which is tested first).
ThemeChange ==
  /\ styleSheet' = styleSheet
  /\ element' = element
  /\ (\E p \in StylePartials : SetTheme(p)) \/ ResetTheme

\* The class names of the rules in the stylesheet.
Selectors(sheet) == {sheet[k].selector : k \in 1..Len(sheet)}

\* C18: every setTheme and resetTheme call, the empty partial included, empties
\* the whole style cache, and the css call that follows mints a new class name
\* and appends a new rule, also for text that was resolved before the change.
C18_ThemeChangeEmptiesCache ==
  [][/\ styleCache' # EmptyMap => ~ThemeChange
     /\ (returned = {} /\ epochStart = Len(styleSheet)) =>
          \/ /\ Len(styleSheet') = Len(styleSheet) + 1
             /\ styleSheet'[Len(styleSheet')].selector \notin Selectors(styleSheet)
             /\ \A e \in returned' : e.cls = styleSheet'[Len(styleSheet')].selector
          \/ ~(\E d \in Descriptions : CssCall(d))]_vars

\* Under the default tokens a text resolved before a theme change was resolved
\* again after it, and has a second rule with another class.
C18_Witness ==
  /\ Deref(heap, activeTheme) = DefaultTokens
  /\ \E i \in 1..epochStart, j \in (epochStart + 1)..Len(styleSheet) :
       /\ SameText(styleSheet[i].body, styleSheet[j].body)
       /\ styleSheet[i].selector # styleSheet[j].selector
       /\ \E e \in returned : e.cls = styleSheet[j].selector

\* The rules of the stylesheet that carry the class name.
RulesOf(cls) == {k \in 1..Len(styleSheet) : styleSheet[k].selector = cls}

\* C20: the style cache is a bijection: no two hashes map to the same class
\* name, and every class name in the cache has exactly one rule in the
\* stylesheet, whose text is the text resolved when the class was minted
\* (the text the cache key was computed from).
C20_CacheIsBijection ==
  /\ \A h1, h2 \in DOMAIN styleCache : h1 # h2 => styleCache[h1] # styleCache[h2]
  /\ \A h \in DOMAIN styleCache :
       /\ Cardinality(RulesOf(styleCache[h])) = 1
       /\ \A k \in RulesOf(styleCache[h]) : Hash(styleSheet[k].body) = h

\* The cache holds two classes minted after a theme change, behind a rule of
\* the old theme that the cache no longer names.
C20_Witness ==
  /\ Cardinality(DOMAIN styleCache) >= 2
  /\ Len(styleSheet) > Cardinality(DOMAIN styleCache)

\* An entry of a children array that is falsy: null, false or the empty string.
IsFalsy(e) == e.kind \in {"null", "false"} \/ (e.kind = "string" /\ e.s = "")

\* What a child node is, apart from its identity: a text node or the node given.
Shape(c) == IF c.kind = "text" THEN [kind |-> "text", data |-> c.data] ELSE c

\* The non-falsy entries of a children array in their order, strings as text nodes.
NonFalsyEntries(a) ==
  LET kept == SelectSeq(a, LAMBDA e : ~IsFalsy(e))
  IN  [j \in 1..Len(kept) |->
         IF kept[j].kind = "string" THEN [kind |-> "text", data |-> kept[j].s] ELSE kept[j]]

\* The node was built by createElement from a children array.
BuiltFromArray ==
  /\ element # NoNode
  /\ element.by = "createElement"
  /\ element.props.children.kind = "array"

\* C14 as stated: for any children array the node's children are exactly the
\* non-falsy entries in their order, strings as text nodes, nodes as they are.
C14_ChildrenAreNonFalsyEntries ==
  BuiltFromArray =>
    [k \in 1..Len(element.children) |-> Shape(element.children[k])]
      = NonFalsyEntries(element.props.children.a)

\* No node occurs twice in the array.
DistinctNodes(a) ==
  \A i, j \in 1..Len(a) : (i # j /\ a[i].kind = "node") => a[i] # a[j]

\* C14 amended: for any children array in which no node occurs twice, the
\* node's children are exactly the non-falsy entries in their order, strings
\* as text nodes, nodes as they are.
C14_DistinctChildrenAppended ==
  (BuiltFromArray /\ DistinctNodes(element.props.children.a)) =>
    [k \in 1..Len(element.children) |-> Shape(element.children[k])]
      = NonFalsyEntries(element.props.children.a)

\* createElement was given [null, 'a', nodeX] and appended the text node and the node.
C14_Witness ==
  /\ BuiltFromArray
  /\ element.props.children.a = << [kind |-> "null"], [kind |-> "string", s |-> "a"], nodeX >>
  /\ Len(element.children) = 2
  /\ element.children[1].kind = "text"
  /\ element.children[2] = nodeX

\* node.textContent: the text of the children in order.
TextContent(children) ==
  Bytes([k \in 1..Len(children) |->
           IF children[k].kind = "text" THEN children[k].data ELSE children[k].text])

\* The characters of needle occur in hay, in a row.
Contains(hay, needle) ==
  \E i \in 0..(Len(hay) - Len(needle)) : SubSeq(hay, i + 1, i + Len(needle)) = needle

\* The node was returned by Button.
BuiltByButton == element # NoNode /\ element.by = "Button"

\* C15 as stated: for any props with a string label, Button returns a button
\* node whose text content contains the label.
C15_ButtonShowsLabel ==
  BuiltByButton =>
    /\ element.tag = "button"
    /\ Contains(TextContent(element.children), Bytes(<<element.props.label>>))

\* C15 amended: for any props with a string label and no children property
\* among the remaining props, Button returns a button node whose text content
\* contains the label.
C15_ButtonWithoutChildrenShowsLabel ==
  (BuiltByButton /\ "children" \notin DOMAIN element.props.rest) =>
    /\ element.tag = "button"
    /\ Contains(TextContent(element.children), Bytes(<<element.props.label>>))

\* Button was given the label Test and a node as icon: the icon and the text
\* node of the label are the children.
C15_Witness ==
  /\ BuiltByButton
  /\ element.props.label = "Test"
  /\ element.props.icon = nodeX
  /\ element.props.rest = EmptyMap
  /\ Len(element.children) = 2
  /\ element.children[2].kind = "text"
  /\ element.children[2].data = "Test"

\* C16: createElement called again with the same node description and no
\* theme change in between yields a node with the same classes and the same
\* property assignments, and inserts no rule.
C16_RebuildIsIdempotent ==
  [][\A d \in CssStylesProps, cn \in ClassNameProps :
       (Repeats([cssStyles |-> d, className |-> cn, children |-> NoChildren])
          /\ CreateElement(d, cn, NoChildren)) =>
         /\ element'.tag = element.tag
         /\ element'.classList = element.classList
         /\ element'.generatedClass = element.generatedClass
         /\ element'.props = element.props
         /\ element'.children = element.children
         /\ styleSheet' = styleSheet]_vars

\* After a theme change a styled node was built twice from one description.
C16_Witness ==
  /\ element # NoNode
  /\ element.repeat
  /\ element.props.cssStyles = "red"
  /\ element.generatedClass \notin stale
  /\ epochStart > 0

\* The class name createUniqueId('zen-style') yields when the counter is n.
StyleClass(n) == createUniqueId("zen-style", n)

\* C21: in every reachable state the stylesheet has as many rules as class
\* names were minted (the uniqueId counter), the cache has at most as many
\* entries as the stylesheet has rules, and the rule at index i of the
\* stylesheet, counted from zero as the counter counts, carries the class
\* name zen-style-i; no step decreases the counter.
C21_RulesMatchCounter ==
  /\ [](/\ Len(styleSheet) = uniqueId
        /\ Cardinality(DOMAIN styleCache) <= Len(styleSheet)
        /\ \A i \in 0..(Len(styleSheet) - 1) : styleSheet[i + 1].selector = StyleClass(i))
  /\ [][uniqueId' >= uniqueId]_vars

\* Two classes were minted, the theme was changed, and a class was minted
\* after the change: the cache names only the last rule of the stylesheet.
C21_Witness ==
  /\ uniqueId >= 3
  /\ epochStart = uniqueId - 1
  /\ Cardinality(DOMAIN styleCache) = 1
  /\ \E e \in returned : e.cls = StyleClass(uniqueId - 1)

\* A close request or a completion notification of instance i: a cleanup call,
\* a click on its close button or inside its overlay, or the onfinish of one
\* of its animations.
CloseOrFinish(i) ==
  \/ Cleanup(i)
  \/ ClickCloseButton(i)
  \/ \E t \in ClickTargets : ClickOverlay(i, t)
  \/ \E a \in 1..Len(modals[i].anims) : OnFinish(i, a)

\* C22: Modal instances are isolated: a close request or completion
\* notification of one instance leaves every other instance as it was: its
\* overlay and dialog nodes, its animations and their completion state, its
\* onClose record, whether its overlay is attached, and the order of the
\* other overlays in the body.
C22_InstancesAreIsolated ==
  [][\A i \in 1..Len(modals) :
       (\E j \in 1..Len(modals) : j # i /\ (modals'[j] # modals[j] \/ Remove(body', i) # Remove(body, i)))
         => ~CloseOrFinish(i)]_vars

\* Two instances were open at once; the second was closed from its close
\* button and detached by its notification, while the first is attached with
\* only its enter animations and its onClose never called.
C22_Witness ==
  /\ Len(modals) = 2
  /\ body = <<1>>
  /\ Open(1)
  /\ ~modals[1].notified
  /\ modals[2].notified
  /\ \E a \in 1..Len(modals[2].anims) : modals[2].anims[a].finished

====
